---- MODULE Spec2Model ----
(***************************************************************************)
(* F1-Dashboard: the schedule handler (src/src/schedule_handler.py) and    *)
(* the data loader's aggregations (src/src/data_loader.py).                *)
(*                                                                         *)
(* Time is counted in whole seconds since an arbitrary epoch.  A           *)
(* grand-prix timestamp string of the schedule file is modelled by what    *)
(* datetime.fromisoformat makes of it: a "Z" string parses to an aware     *)
(* instant, a string without offset parses to a naive datetime whose       *)
(* comparison with the aware `now` raises TypeError, anything else raises  *)
(* ValueError and a missing key raises KeyError.                           *)
(***************************************************************************)
EXTENDS Integers, Sequences, FiniteSets, TLC

VARIABLES file, races, now, last, csv, loader, app

vars == <<file, races, now, last, csv, loader, app>>

----------------------------------------------------------------------------
(* Bounds of the schedule model *)

MaxRaces == 3
MaxT == 6

Times == 0..MaxT

Missing == "<missing>"
None == [tag |-> "None"]
Raised == [tag |-> "raised"]

(* sessions.gp strings of the schedule file *)
GpZ(t) == [kind |-> "Z", t |-> t]
GpNaive(t) == [kind |-> "naive", t |-> t]
GpGarbage == [kind |-> "garbage", t |-> 0]
GpMissing == [kind |-> "missing", t |-> 0]

GoodGp == {GpZ(t) : t \in Times}
BadGp == {GpNaive(0), GpGarbage, GpMissing}

(* the name and sessions.gp of an entry of the "races" list of the schedule
   file: name is the grand-prix name, or Missing when the key is absent *)
GoodBodies == [name : {"GP"}, gp : GoodGp]
BadBodies == [name : {"GP"}, gp : BadGp] \cup [name : {Missing}, gp : GoodGp]

(* a calendar a schedule file may hold: up to MaxRaces entries stored in any
   order, entry i carrying round i, built from n well-formed bodies g with
   entry k (when k > 0) replaced by the malformed body x *)
Calendar(n, g, k, x) ==
    [i \in 1..n |->
        LET b == IF i = k THEN x ELSE g[i]
        IN [round |-> i, name |-> b.name, gp |-> b.gp]]

FirstBody == [name |-> "GP", gp |-> GpZ(0)]

(* the schedule file: absent, not valid JSON, or a document with a races list *)
IsScheduleFile(f) ==
    \/ f = [kind |-> "absent", races |-> <<>>]
    \/ f = [kind |-> "malformed", races |-> <<>>]
    \/ \E n \in 0..MaxRaces : \E g \in [1..n -> GoodBodies] :
          \/ f = [kind |-> "json", races |-> Calendar(n, g, 0, FirstBody)]
          \/ \E k \in 1..n : \E x \in BadBodies :
                /\ g[k] = FirstBody
                /\ f = [kind |-> "json", races |-> Calendar(n, g, k, x)]

----------------------------------------------------------------------------
(* datetime.fromisoformat(race['sessions']['gp'].replace('Z', '+00:00')) *)
fromisoformat(gp) ==
    CASE gp.kind = "Z" -> [ok |-> TRUE, aware |-> TRUE, t |-> gp.t]
      [] gp.kind = "naive" -> [ok |-> TRUE, aware |-> FALSE, t |-> gp.t]
      [] OTHER -> [ok |-> FALSE, aware |-> FALSE, t |-> 0]

(* the comparison of a parsed date with the aware now raises for a naive date *)
Comparable(d) == d.ok /\ d.aware

(* variant: the entries read are appended to the races already held *)
load_schedule_extend(f, old) ==
    CASE f.kind = "absent" -> [races |-> old, status |-> FALSE]
      [] f.kind = "malformed" -> [races |-> old, status |-> FALSE]
      [] OTHER -> [races |-> old \o f.races, status |-> Len(old \o f.races) > 0]

(* F1ScheduleHandler.load_schedule: the races list and the returned status *)
load_schedule(f, old) ==
    CASE f.kind = "absent" -> [races |-> old, status |-> FALSE]
      [] f.kind = "malformed" -> [races |-> old, status |-> FALSE]
      [] OTHER -> [races |-> f.races, status |-> Len(f.races) > 0]

(* F1ScheduleHandler.get_next_race: first stored entry with race_date > now *)
RECURSIVE get_next_race(_, _)
get_next_race(rs, n) ==
    IF rs = <<>> THEN None
    ELSE LET race == Head(rs)
             race_date == fromisoformat(race.gp)
         IN IF Comparable(race_date) /\ race_date.t > n
            THEN race
            ELSE get_next_race(Tail(rs), n)

(* variant: the loop without the `race_date < now` test *)
RECURSIVE FormatLoopKeepPast(_, _)
FormatLoopKeepPast(rs, n) ==
    IF rs = <<>> THEN <<>>
    ELSE LET race == Head(rs)
             race_date == fromisoformat(race.gp)
             rest == FormatLoopKeepPast(Tail(rs), n)
         IN IF ~Comparable(race_date) THEN rest
            ELSE IF race.name = Missing THEN rest
            ELSE <<[round |-> race.round, date |-> race_date.t,
                    is_past |-> FALSE, is_next |-> FALSE]>> \o rest

(* variant: the past test reversed, the entries still ahead are dropped *)
RECURSIVE FormatLoopKeepOnlyPast(_, _)
FormatLoopKeepOnlyPast(rs, n) ==
    IF rs = <<>> THEN <<>>
    ELSE LET race == Head(rs)
             race_date == fromisoformat(race.gp)
             rest == FormatLoopKeepOnlyPast(Tail(rs), n)
         IN IF ~Comparable(race_date) THEN rest
            ELSE IF race_date.t > n THEN rest
            ELSE IF race.name = Missing THEN rest
            ELSE <<[round |-> race.round, date |-> race_date.t,
                    is_past |-> FALSE, is_next |-> FALSE]>> \o rest

(* the loop of get_formatted_schedule: entries kept, in stored order *)
RECURSIVE FormatLoop(_, _)
FormatLoop(rs, n) ==
    IF rs = <<>> THEN <<>>
    ELSE LET race == Head(rs)
             race_date == fromisoformat(race.gp)
             rest == FormatLoop(Tail(rs), n)
         IN IF ~Comparable(race_date) THEN rest
            ELSE IF race_date.t < n THEN rest
            ELSE IF race.name = Missing THEN rest
            ELSE <<[round |-> race.round, date |-> race_date.t,
                    is_past |-> FALSE, is_next |-> FALSE]>> \o rest

(* list.sort(key=date): stable, ascending *)
RECURSIVE InsertByDate(_, _)
InsertByDate(x, s) ==
    IF s = <<>> THEN <<x>>
    ELSE IF Head(s).date <= x.date THEN <<Head(s)>> \o InsertByDate(x, Tail(s))
    ELSE <<x>> \o s

(* variant: the list left in stored order *)
NoSortByDate(s) == s

RECURSIVE SortByDate(_)
SortByDate(s) ==
    IF s = <<>> THEN <<>>
    ELSE InsertByDate(s[Len(s)], SortByDate(SubSeq(s, 1, Len(s) - 1)))

(* variant: every entry sharing the earliest date is flagged *)
MarkEarliest(s) ==
    [i \in 1..Len(s) |-> [s[i] EXCEPT !.is_next = (s[i].date = s[1].date)]]

MarkFirst(s) ==
    IF s = <<>> THEN s
    ELSE [s EXCEPT ![1] = [@ EXCEPT !.is_next = TRUE]]

(* variant: the list computed by the previous call is returned again *)
get_formatted_schedule_memo(rs, n) ==
    IF last.op = "get_formatted_schedule"
    THEN last.result
    ELSE MarkFirst(SortByDate(FormatLoop(rs, n)))

(* F1ScheduleHandler.get_formatted_schedule *)
get_formatted_schedule(rs, n) == MarkFirst(SortByDate(FormatLoop(rs, n)))

(* variant: `<= 0` in place of `< 0` *)
calculate_countdown_le(target_date_str, n) ==
    LET target == fromisoformat(target_date_str)
    IN IF ~Comparable(target) THEN Raised
       ELSE LET delta == target.t - n
                dseconds == delta % 86400
                remainder == dseconds % 3600
            IN IF delta <= 0
               THEN [days |-> 0, hours |-> 0, minutes |-> 0, seconds |-> 0,
                     expired |-> TRUE]
               ELSE [days |-> delta \div 86400, hours |-> dseconds \div 3600,
                     minutes |-> remainder \div 60, seconds |-> remainder % 60,
                     expired |-> FALSE]

(* variant: hours taken from the whole duration, not from delta.seconds *)
calculate_countdown_total(target_date_str, n) ==
    LET target == fromisoformat(target_date_str)
    IN IF ~Comparable(target) THEN Raised
       ELSE LET delta == target.t - n
                remainder == delta % 3600
            IN IF delta < 0
               THEN [days |-> 0, hours |-> 0, minutes |-> 0, seconds |-> 0,
                     expired |-> TRUE]
               ELSE [days |-> delta \div 86400, hours |-> delta \div 3600,
                     minutes |-> remainder \div 60, seconds |-> remainder % 60,
                     expired |-> FALSE]

(* F1ScheduleHandler.calculate_countdown *)
calculate_countdown(target_date_str, n) ==
    LET target == fromisoformat(target_date_str)
    IN IF ~Comparable(target) THEN Raised
       ELSE LET delta == target.t - n
                days == delta \div 86400
                dseconds == delta % 86400
                hours == dseconds \div 3600
                remainder == dseconds % 3600
                minutes == remainder \div 60
                seconds == remainder % 60
            IN IF delta < 0
               THEN [days |-> 0, hours |-> 0, minutes |-> 0, seconds |-> 0,
                     expired |-> TRUE]
               ELSE [days |-> days, hours |-> hours, minutes |-> minutes,
                     seconds |-> seconds, expired |-> FALSE]

----------------------------------------------------------------------------
(* The schedule handler as a state machine.  now is the instant the latest
   call read from the clock; a call made after `elapsed` more seconds reads
   now + elapsed.  last is the record of the latest call: the operation, its
   argument and what it returned. *)

NoCall == [op |-> "none", arg |-> None, result |-> None]

NoLoader == [loaded |-> FALSE, tables |-> None]

(* the dashboard run (src/src/app.py, main) when no run is in progress *)
NoApp ==
    [pc |-> "idle", loader |-> None, schedule_handler |-> None,
     errors |-> {}, tabs |-> FALSE, calls |-> {}]

Elapsed == 0..(MaxT - now)

InitSched ==
    /\ IsScheduleFile(file)
    /\ races = <<>>
    /\ now = 0
    /\ last = NoCall
    /\ csv = None
    /\ loader = NoLoader
    /\ app = NoApp

LoadSchedule ==
    LET r == load_schedule(file, races)
    IN /\ races' = r.races
       /\ last' = [op |-> "load_schedule", arg |-> None, result |-> r.status]
       /\ UNCHANGED <<file, now, csv, loader, app>>

(* app.py queries the handler only when the load succeeded and the
   calendar is not empty *)
Usable == races # <<>>

GetNextRace(elapsed) ==
    /\ Usable
    /\ now' = now + elapsed
    /\ last' = [op |-> "get_next_race", arg |-> None,
                result |-> get_next_race(races, now')]
    /\ UNCHANGED <<file, races, csv, loader, app>>

GetFormattedSchedule(elapsed) ==
    /\ Usable
    /\ now' = now + elapsed
    /\ last' = [op |-> "get_formatted_schedule", arg |-> None,
                result |-> get_formatted_schedule(races, now')]
    /\ UNCHANGED <<file, races, csv, loader, app>>

(* variant: the call drops the first stored race *)
CalculateCountdownPop(target_date_str, elapsed) ==
    /\ now' = now + elapsed
    /\ last' = [op |-> "calculate_countdown", arg |-> target_date_str,
                result |-> calculate_countdown(target_date_str, now')]
    /\ races' = IF races = <<>> THEN races ELSE Tail(races)
    /\ UNCHANGED <<file, csv, loader, app>>

CalculateCountdown(target_date_str, elapsed) ==
    /\ now' = now + elapsed
    /\ last' = [op |-> "calculate_countdown", arg |-> target_date_str,
                result |-> calculate_countdown(target_date_str, now')]
    /\ UNCHANGED <<file, races, csv, loader, app>>

(* app.py computes the countdown for the race get_next_race returned *)
CountdownToNextRace(elapsed) ==
    /\ last.op = "get_next_race"
    /\ last.result # None
    /\ CalculateCountdown(last.result.gp, elapsed)

NextSched ==
    \/ LoadSchedule
    \/ \E d \in Elapsed : GetNextRace(d)
    \/ \E d \in Elapsed : GetFormattedSchedule(d)
    \/ \E d \in Elapsed : CountdownToNextRace(d)

SpecSched == InitSched /\ [][NextSched]_vars

----------------------------------------------------------------------------
(* The dataset (src/src/data_loader.py).  A table is the sequence of the rows
   of its CSV file, a row a record keyed by column name. *)

MaxResults == 2

(* pandas' missing value: to_numeric(errors='coerce') yields it, fillna(0)
   removes it *)
NaN == -1

RaceRow(id) ==
    CASE id = 1 -> [raceId |-> 1, year |-> 2010, round |-> 2, name |-> "Monaco",
                    circuitId |-> 6]
      [] id = 2 -> [raceId |-> 2, year |-> 2010, round |-> 1, name |-> "Monza",
                    circuitId |-> 14]
      [] OTHER -> [raceId |-> 3, year |-> 2011, round |-> 1, name |-> "Monaco",
                   circuitId |-> 6]

DriverRow(id) ==
    IF id = 1 THEN [driverId |-> 1, forename |-> "Lewis", surname |-> "Hamilton"]
    ELSE [driverId |-> 2, forename |-> "Max", surname |-> "Verstappen"]

(* the dimension files: driver 2 or constructor 2 may have no row, and the
   two constructors may carry the same name *)
RaceTables == { <<RaceRow(1), RaceRow(2), RaceRow(3)>> }
DriverTables == { <<DriverRow(1), DriverRow(2)>>, <<DriverRow(1)>> }
ConstructorTables ==
    { <<[constructorId |-> 1, name |-> "Ferrari"], [constructorId |-> 2, name |-> "McLaren"]>>,
      <<[constructorId |-> 1, name |-> "Ferrari"], [constructorId |-> 2, name |-> "Ferrari"]>>,
      <<[constructorId |-> 1, name |-> "Ferrari"]>> }

(* rows of results.csv as read: positionOrder is text, points may be missing
   (here on the rows of the drivers who retired) *)
ResultRows ==
    { [raceId |-> r, driverId |-> d, constructorId |-> c,
       positionOrder |-> IF p = NaN THEN "R" ELSE "1", points |-> p] :
        r \in 1..3, d \in 1..2, c \in 1..2, p \in {NaN, 1} }

(* the five files; bad = k > 0 means the k-th read_csv raises (the datasets
   that fail to load are drawn with at most one result row) *)
IsDataset(c) ==
    \E n \in 0..MaxResults : \E t \in [1..n -> ResultRows] :
      \E r \in RaceTables, d \in DriverTables, k \in ConstructorTables :
        \E b \in (IF n <= 1 THEN 0..5 ELSE {0}) :
          c = [bad |-> b, races |-> r, results |-> t, drivers |-> d,
               constructors |-> k]

StartYears == {2010, 2011}

(* pd.to_numeric(column, errors='coerce') on one cell *)
to_numeric(s) ==
    CASE s = "1" -> 1
      [] s = "2" -> 2
      [] s = "3" -> 3
      [] s = "4" -> 4
      [] OTHER -> NaN

fillna(x, v) == IF x = NaN THEN v ELSE x

(* variant: the rows whose positionOrder is not a number are dropped *)
_clean_data_dropna(results) ==
    SelectSeq([i \in 1..Len(results) |->
                 [results[i] EXCEPT !.positionOrder = to_numeric(@),
                                    !.points = fillna(@, 0)]],
              LAMBDA r : r.positionOrder # NaN)

(* F1DataLoader._clean_data on the results table *)
_clean_data(results) ==
    [i \in 1..Len(results) |->
        [results[i] EXCEPT !.positionOrder = to_numeric(@),
                           !.points = fillna(@, 0)]]

(* F1DataLoader.load_all_data: the loader's tables and the returned status;
   a read that raises leaves the tables read before it assigned *)
load_all_data(c, old) ==
    LET read(k, new, prev) == IF c.bad = 0 \/ k < c.bad THEN new ELSE prev
        ok == c.bad = 0
    IN [status |-> ok,
        tables |->
          [races |-> read(1, c.races, old.races),
           results |-> IF ok THEN _clean_data(c.results)
                       ELSE read(2, c.results, old.results),
           drivers |-> read(3, c.drivers, old.drivers),
           constructors |-> read(4, c.constructors, old.constructors),
           qualifying |-> read(5, <<>>, old.qualifying)]]

(* DataFrame[[cols]] *)
Project(tbl, cols) == [i \in 1..Len(tbl) |-> [c \in cols |-> tbl[i][c]]]

(* DataFrame.merge(right, on=key): inner join, in the order of the left rows *)
RECURSIVE merge(_, _, _)
merge(left, right, key) ==
    IF left = <<>> THEN <<>>
    ELSE LET l == Head(left)
             hits == SelectSeq(right, LAMBDA r : r[key] = l[key])
         IN [i \in 1..Len(hits) |-> l @@ hits[i]] \o merge(Tail(left), right, key)

(* sort_values(['year', 'driverId', 'round']): stable, ascending *)
ChampLess(a, b) ==
    \/ a.year < b.year
    \/ a.year = b.year /\ a.driverId < b.driverId
    \/ a.year = b.year /\ a.driverId = b.driverId /\ a.round < b.round

RECURSIVE InsertChamp(_, _)
InsertChamp(x, s) ==
    IF s = <<>> THEN <<x>>
    ELSE IF ChampLess(x, Head(s)) THEN <<x>> \o s
    ELSE <<Head(s)>> \o InsertChamp(x, Tail(s))

(* variant: the rows left in stored order *)
NoSortChamp(s) == s

RECURSIVE SortChamp(_)
SortChamp(s) ==
    IF s = <<>> THEN <<>>
    ELSE InsertChamp(s[Len(s)], SortChamp(SubSeq(s, 1, Len(s) - 1)))

RECURSIVE SumPoints(_)
SumPoints(s) == IF s = <<>> THEN 0 ELSE Head(s).points + SumPoints(Tail(s))

(* variant: cumsum() over all rows, without the groupby *)
RunningSum(s) == [i \in 1..Len(s) |-> SumPoints(SubSeq(s, 1, i))]

(* groupby(['year', 'driverId'])['points'].cumsum(): running sum in row order *)
GroupCumsum(s) ==
    [i \in 1..Len(s) |->
        SumPoints(SelectSeq(SubSeq(s, 1, i),
                            LAMBDA r : r.year = s[i].year /\ r.driverId = s[i].driverId))]

(* F1DataLoader.get_driver_championship_data *)
get_driver_championship_data(L, start_year) ==
    LET m1 == merge(L.results, Project(L.races, {"raceId", "year", "round"}), "raceId")
        m2 == SelectSeq(m1, LAMBDA r : r.year >= start_year)
        m3 == merge(m2, Project(L.drivers, {"driverId", "forename", "surname"}), "driverId")
        sorted == SortChamp(m3)
        cum == GroupCumsum(sorted)
    IN [i \in 1..Len(sorted) |->
          [year |-> sorted[i].year, round |-> sorted[i].round,
           driver_name |-> <<sorted[i].forename, sorted[i].surname>>,
           driverId |-> sorted[i].driverId,
           cumulative_points |-> cum[i], points |-> sorted[i].points]]

(* variant: the group keeps the points of its first row only *)
GroupFirst(rows) == Head(rows).points

(* groupby(['year', 'name'])['points'].sum() of one group *)
GroupSum(rows) == SumPoints(rows)

(* the constructor names in ascending order, the order groupby sorts by *)
NameOrder == <<"Ferrari", "McLaren">>

(* F1DataLoader.get_constructor_championship_data *)
get_constructor_championship_data(L, start_year) ==
    LET m1 == merge(L.results, Project(L.races, {"raceId", "year"}), "raceId")
        m2 == merge(m1, Project(L.constructors, {"constructorId", "name"}), "constructorId")
        m3 == SelectSeq(m2, LAMBDA r : r.year >= start_year)
        keys == <<<<2010, NameOrder[1]>>, <<2010, NameOrder[2]>>,
                  <<2011, NameOrder[1]>>, <<2011, NameOrder[2]>>>>
        group(k) == SelectSeq(m3, LAMBDA r : r.year = k[1] /\ r.name = k[2])
        present == SelectSeq(keys, LAMBDA k : group(k) # <<>>)
    IN [i \in 1..Len(present) |->
          [year |-> present[i][1], name |-> present[i][2],
           points |-> GroupSum(group(present[i]))]]

(* the race names and the driver names in ascending order, the order groupby
   and sort_values put them in *)
CircuitNameOrder == <<"Monaco", "Monza">>
DriverNameOrder == <<<<"Lewis", "Hamilton">>, <<"Max", "Verstappen">>>>

RankIn(order, x) == CHOOSE i \in 1..Len(order) : order[i] = x

(* driver_results['positionOrder'] <= 3: a missing value compares False *)
IsPodium(r) == r.positionOrder # NaN /\ r.positionOrder <= 3

(* variant: every classified row counts as a win *)
IsClassified(r) == r.positionOrder # NaN

(* merged['positionOrder'] == 1 *)
IsWinner(r) == r.positionOrder = 1

(* sort_values(['name', 'wins'], ascending=[True, False]): stable *)
CircuitLess(a, b) ==
    \/ RankIn(CircuitNameOrder, a.name) < RankIn(CircuitNameOrder, b.name)
    \/ a.name = b.name /\ a.wins > b.wins

RECURSIVE InsertCircuit(_, _)
InsertCircuit(x, s) ==
    IF s = <<>> THEN <<x>>
    ELSE IF CircuitLess(x, Head(s)) THEN <<x>> \o s
    ELSE <<Head(s)>> \o InsertCircuit(x, Tail(s))

RECURSIVE SortCircuit(_)
SortCircuit(s) ==
    IF s = <<>> THEN <<>>
    ELSE InsertCircuit(s[Len(s)], SortCircuit(SubSeq(s, 1, Len(s) - 1)))

(* F1DataLoader.get_circuit_stats *)
get_circuit_stats(L) ==
    LET merged == merge(L.results,
                        Project(L.races, {"raceId", "year", "name", "circuitId"}),
                        "raceId")
        winners == merge(SelectSeq(merged, IsWinner),
                         Project(L.drivers, {"driverId", "forename", "surname"}),
                         "driverId")
        keys == <<<<CircuitNameOrder[1], DriverNameOrder[1]>>,
                  <<CircuitNameOrder[1], DriverNameOrder[2]>>,
                  <<CircuitNameOrder[2], DriverNameOrder[1]>>,
                  <<CircuitNameOrder[2], DriverNameOrder[2]>>>>
        size(k) == Len(SelectSeq(winners,
                         LAMBDA r : r.name = k[1] /\ <<r.forename, r.surname>> = k[2]))
        present == SelectSeq(keys, LAMBDA k : size(k) > 0)
    IN SortCircuit([i \in 1..Len(present) |->
                      [name |-> present[i][1], driver_name |-> present[i][2],
                       wins |-> size(present[i])]])

(* Series.mean() of positionOrder, as the fraction num/den: the missing
   values are skipped, and the mean of no value is missing (den = 0) *)
RECURSIVE SumPosition(_)
SumPosition(s) ==
    IF s = <<>> THEN 0 ELSE Head(s).positionOrder + SumPosition(Tail(s))

(* variant: the missing values are counted as position 0 *)
MeanFillZero(rows) ==
    [num |-> SumPosition(SelectSeq(rows, LAMBDA r : r.positionOrder # NaN)),
     den |-> Len(rows)]

Mean(rows) ==
    LET ranked == SelectSeq(rows, LAMBDA r : r.positionOrder # NaN)
    IN [num |-> SumPosition(ranked), den |-> Len(ranked)]

(* variant: driver 2's podiums counted with positionOrder < 3 *)
get_head_to_head_data_lt(L, driver1_id, driver2_id) ==
    LET results(id) ==
            merge(SelectSeq(L.results, LAMBDA r : r.driverId = id),
                  Project(L.races, {"raceId", "year"}), "raceId")
        name(id) == SelectSeq(L.drivers, LAMBDA r : r.driverId = id)
        driver1_results == results(driver1_id)
        driver2_results == results(driver2_id)
    IN IF name(driver1_id) = <<>> \/ name(driver2_id) = <<>> THEN Raised
       ELSE [driver1 |-> <<name(driver1_id)[1].forename, name(driver1_id)[1].surname>>,
             driver2 |-> <<name(driver2_id)[1].forename, name(driver2_id)[1].surname>>,
             driver1_wins |-> Len(SelectSeq(driver1_results, IsWinner)),
             driver2_wins |-> Len(SelectSeq(driver2_results, IsWinner)),
             driver1_podiums |-> Len(SelectSeq(driver1_results, IsPodium)),
             driver2_podiums |->
                 Len(SelectSeq(driver2_results,
                               LAMBDA r : IsPodium(r) /\ r.positionOrder < 3)),
             driver1_total_points |-> SumPoints(driver1_results),
             driver2_total_points |-> SumPoints(driver2_results),
             driver1_avg_position |-> Mean(driver1_results),
             driver2_avg_position |-> Mean(driver2_results)]

(* F1DataLoader.get_head_to_head_data: .iloc[0] raises IndexError when the
   drivers table has no row for an id *)
get_head_to_head_data(L, driver1_id, driver2_id) ==
    LET results(id) ==
            merge(SelectSeq(L.results, LAMBDA r : r.driverId = id),
                  Project(L.races, {"raceId", "year"}), "raceId")
        name(id) == SelectSeq(L.drivers, LAMBDA r : r.driverId = id)
        driver1_results == results(driver1_id)
        driver2_results == results(driver2_id)
    IN IF name(driver1_id) = <<>> \/ name(driver2_id) = <<>> THEN Raised
       ELSE [driver1 |-> <<name(driver1_id)[1].forename, name(driver1_id)[1].surname>>,
             driver2 |-> <<name(driver2_id)[1].forename, name(driver2_id)[1].surname>>,
             driver1_wins |-> Len(SelectSeq(driver1_results, IsWinner)),
             driver2_wins |-> Len(SelectSeq(driver2_results, IsWinner)),
             driver1_podiums |-> Len(SelectSeq(driver1_results, IsPodium)),
             driver2_podiums |-> Len(SelectSeq(driver2_results, IsPodium)),
             driver1_total_points |-> SumPoints(driver1_results),
             driver2_total_points |-> SumPoints(driver2_results),
             driver1_avg_position |-> Mean(driver1_results),
             driver2_avg_position |-> Mean(driver2_results)]

(* sort_values('points', ascending=False): rows of equal points keep their
   order *)
RECURSIVE InsertByPoints(_, _)
InsertByPoints(x, s) ==
    IF s = <<>> THEN <<x>>
    ELSE IF Head(s).points >= x.points THEN <<Head(s)>> \o InsertByPoints(x, Tail(s))
    ELSE <<x>> \o s

(* variant: the groups left in driverId order *)
NoSortByPoints(s) == s

RECURSIVE SortByPoints(_)
SortByPoints(s) ==
    IF s = <<>> THEN <<>>
    ELSE InsertByPoints(s[Len(s)], SortByPoints(SubSeq(s, 1, Len(s) - 1)))

(* DataFrame.head(n) *)
head(s, n) == SubSeq(s, 1, IF n < Len(s) THEN n ELSE Len(s))

(* the driverId values of the model in ascending order, the order groupby
   puts its groups in *)
DriverIdOrder == <<DriverRow(1).driverId, DriverRow(2).driverId>>

(* F1DataLoader.get_top_drivers_list *)
get_top_drivers_list(L, limit) ==
    LET group(id) == SelectSeq(L.results, LAMBDA r : r.driverId = id)
        present == SelectSeq(DriverIdOrder, LAMBDA id : group(id) # <<>>)
        driver_points == [i \in 1..Len(present) |->
                            [driverId |-> present[i],
                             points |-> SumPoints(group(present[i]))]]
        top == head(SortByPoints(driver_points), limit)
        named == merge(top, Project(L.drivers, {"driverId", "forename", "surname"}),
                       "driverId")
    IN [i \in 1..Len(named) |->
          [driverId |-> named[i].driverId,
           driver_name |-> <<named[i].forename, named[i].surname>>,
           points |-> named[i].points]]

NoTables ==
    [races |-> None, results |-> None, drivers |-> None,
     constructors |-> None, qualifying |-> None]

InitData ==
    /\ file = [kind |-> "absent", races |-> <<>>]
    /\ races = <<>>
    /\ now = 0
    /\ last = NoCall
    /\ IsDataset(csv)
    /\ loader = [loaded |-> FALSE, tables |-> NoTables]
    /\ app = NoApp

LoadAllData ==
    LET r == load_all_data(csv, loader.tables)
    IN /\ loader' = [loaded |-> r.status, tables |-> r.tables]
       /\ last' = [op |-> "load_all_data", arg |-> None, result |-> r.status]
       /\ UNCHANGED <<file, races, now, csv, app>>

(* app.py queries the loader only when load_all_data returned True *)
GetDriverChampionshipData(start_year) ==
    /\ loader.loaded
    /\ last' = [op |-> "get_driver_championship_data", arg |-> start_year,
                result |-> get_driver_championship_data(loader.tables, start_year)]
    /\ UNCHANGED <<file, races, now, csv, loader, app>>

GetConstructorChampionshipData(start_year) ==
    /\ loader.loaded
    /\ last' = [op |-> "get_constructor_championship_data", arg |-> start_year,
                result |-> get_constructor_championship_data(loader.tables, start_year)]
    /\ UNCHANGED <<file, races, now, csv, loader, app>>

NextData ==
    \/ LoadAllData
    \/ \E y \in StartYears : GetDriverChampionshipData(y)
    \/ \E y \in StartYears : GetConstructorChampionshipData(y)

SpecData == InitData /\ [][NextData]_vars

----------------------------------------------------------------------------
(* The five aggregations over datasets whose result rows differ in finishing
   position and points, and whose dimension files may lack one row. *)

(* the limits asked of get_top_drivers_list: fewer rows than there are
   drivers, and as many *)
Limits == {1, 2}

(* start_year and limit as app.py passes them *)
AppStartYear == 2010
AppLimit == 30

(* positionOrder and points of a row of results.csv: a winner, a podium
   finisher, a classified finisher with no points cell, and a finish code
   that is not a number *)
Finishes ==
    { [positionOrder |-> "1", points |-> 150],
      [positionOrder |-> "3", points |-> 90],
      [positionOrder |-> "4", points |-> NaN],
      [positionOrder |-> "R", points |-> 90] }

(* rows of results.csv at the races 1 and 3; driver d drives for
   constructor d *)
AggResultRows ==
    { [raceId |-> r, driverId |-> d, constructorId |-> d,
       positionOrder |-> f.positionOrder, points |-> f.points] :
        r \in {1, 3}, d \in 1..2, f \in Finishes }

(* the dimension files: complete, or without the row of race 3, of driver 2
   or of constructor 2 *)
AggDimensions ==
    LET full == [races |-> <<RaceRow(1), RaceRow(2), RaceRow(3)>>,
                 drivers |-> <<DriverRow(1), DriverRow(2)>>,
                 constructors |-> <<[constructorId |-> 1, name |-> "Ferrari"],
                                    [constructorId |-> 2, name |-> "McLaren"]>>]
    IN { full,
         [full EXCEPT !.races = SubSeq(@, 1, 2)],
         [full EXCEPT !.drivers = SubSeq(@, 1, 1)],
         [full EXCEPT !.constructors = SubSeq(@, 1, 1)] }

IsAggDataset(c) ==
    \E n \in 0..MaxResults : \E t \in [1..n -> AggResultRows] :
      \E dim \in AggDimensions :
        c = [bad |-> 0, races |-> dim.races, results |-> t,
             drivers |-> dim.drivers, constructors |-> dim.constructors]

InitAgg ==
    /\ file = [kind |-> "absent", races |-> <<>>]
    /\ races = <<>>
    /\ now = 0
    /\ last = NoCall
    /\ IsAggDataset(csv)
    /\ loader = [loaded |-> FALSE, tables |-> NoTables]
    /\ app = NoApp

(* variant: the winners are stored back as the loader's results *)
GetCircuitStatsKeep ==
    /\ loader.loaded
    /\ last' = [op |-> "get_circuit_stats", arg |-> None,
                result |-> get_circuit_stats(loader.tables)]
    /\ loader' = [loader EXCEPT !.tables.results = SelectSeq(@, IsWinner)]
    /\ UNCHANGED <<file, races, now, csv, app>>

GetCircuitStats ==
    /\ loader.loaded
    /\ last' = [op |-> "get_circuit_stats", arg |-> None,
                result |-> get_circuit_stats(loader.tables)]
    /\ UNCHANGED <<file, races, now, csv, loader, app>>

GetHeadToHeadData(driver1_id, driver2_id) ==
    /\ loader.loaded
    /\ last' = [op |-> "get_head_to_head_data", arg |-> <<driver1_id, driver2_id>>,
                result |-> get_head_to_head_data(loader.tables, driver1_id, driver2_id)]
    /\ UNCHANGED <<file, races, now, csv, loader, app>>

GetTopDriversList(limit) ==
    /\ loader.loaded
    /\ last' = [op |-> "get_top_drivers_list", arg |-> limit,
                result |-> get_top_drivers_list(loader.tables, limit)]
    /\ UNCHANGED <<file, races, now, csv, loader, app>>

NextAgg ==
    \/ LoadAllData
    \/ GetDriverChampionshipData(AppStartYear)
    \/ GetConstructorChampionshipData(AppStartYear)
    \/ GetCircuitStats
    \/ \E a \in 1..2, b \in 1..2 : GetHeadToHeadData(a, b)
    \/ \E n \in Limits : GetTopDriversList(n)

SpecAgg == InitAgg /\ [][NextAgg]_vars

----------------------------------------------------------------------------
(* get_circuit_stats over datasets with enough winners for one driver to win
   more often than another at races of one name. *)

MaxWinners == 3

CircuitResultRows ==
    { [raceId |-> r, driverId |-> d, constructorId |-> d,
       positionOrder |-> p, points |-> NaN] :
        r \in 1..3, d \in 1..2, p \in {"1", "3"} }

IsCircuitDataset(c) ==
    \E n \in 0..MaxWinners : \E t \in [1..n -> CircuitResultRows] :
      \E d \in DriverTables :
        c = [bad |-> 0, races |-> <<RaceRow(1), RaceRow(2), RaceRow(3)>>,
             results |-> t, drivers |-> d,
             constructors |-> <<[constructorId |-> 1, name |-> "Ferrari"]>>]

InitCircuit ==
    /\ file = [kind |-> "absent", races |-> <<>>]
    /\ races = <<>>
    /\ now = 0
    /\ last = NoCall
    /\ IsCircuitDataset(csv)
    /\ loader = [loaded |-> FALSE, tables |-> NoTables]
    /\ app = NoApp

NextCircuit ==
    \/ LoadAllData
    \/ GetCircuitStats

SpecCircuit == InitCircuit /\ [][NextCircuit]_vars

----------------------------------------------------------------------------
(* One run of the dashboard script (src/src/app.py, main).  app.pc is the
   position of the run, app.loader and app.schedule_handler what load_data
   and load_schedule returned, app.errors the st.error messages shown,
   app.tabs whether st.tabs was called, app.calls the operations invoked on
   the loader and the handler by the tabs. *)

LoadFailedMessage == "Failed to load data"

(* the files of a run: at most one result row, any file unreadable, and the
   schedule file absent, empty or holding one race that is still ahead *)
IsAppDataset(c) ==
    \E n \in 0..1 : \E t \in [1..n -> ResultRows] :
      \E r \in RaceTables, d \in DriverTables, k \in ConstructorTables :
        \E b \in 0..5 :
          c = [bad |-> b, races |-> r, results |-> t, drivers |-> d,
               constructors |-> k]

AppScheduleFiles ==
    { [kind |-> "absent", races |-> <<>>],
      [kind |-> "json", races |-> <<>>],
      [kind |-> "json", races |-> <<[round |-> 1, name |-> "GP", gp |-> GpZ(1)]>>] }

InitApp ==
    /\ file \in AppScheduleFiles
    /\ races = <<>>
    /\ now = 0
    /\ last = NoCall
    /\ IsAppDataset(csv)
    /\ loader = [loaded |-> FALSE, tables |-> NoTables]
    /\ app = [NoApp EXCEPT !.pc = "start"]

(* load_data(): a new F1DataLoader, returned only when load_all_data is True *)
AppLoadData ==
    /\ app.pc = "start"
    /\ LET r == load_all_data(csv, NoTables)
       IN /\ loader' = [loaded |-> r.status, tables |-> r.tables]
          /\ last' = [op |-> "load_all_data", arg |-> None, result |-> r.status]
          /\ app' = [app EXCEPT
                       !.pc = "load_schedule",
                       !.loader = IF r.status THEN [tag |-> "loader"] ELSE None,
                       !.errors = IF r.status THEN @ ELSE @ \cup {LoadFailedMessage}]
    /\ UNCHANGED <<file, races, now, csv>>

(* load_schedule(2026): the handler, returned only when its load is True *)
AppLoadSchedule ==
    /\ app.pc = "load_schedule"
    /\ LET r == load_schedule(file, <<>>)
       IN /\ races' = r.races
          /\ last' = [op |-> "load_schedule", arg |-> None, result |-> r.status]
          /\ app' = [app EXCEPT
                       !.pc = "check",
                       !.schedule_handler =
                           IF r.status THEN [tag |-> "handler"] ELSE None]
    /\ UNCHANGED <<file, now, csv, loader>>

(* variant: the run goes on to the tabs whatever load_data returned *)
AppCheckNoStop ==
    /\ app.pc = "check"
    /\ app' = [app EXCEPT !.pc = "tab1", !.tabs = TRUE]
    /\ UNCHANGED <<file, races, now, last, csv, loader>>

(* `if loader is None: st.stop()`, then st.tabs *)
AppCheck ==
    /\ app.pc = "check"
    /\ app' = IF app.loader = None
              THEN [app EXCEPT !.pc = "stopped"]
              ELSE [app EXCEPT !.pc = "tab1", !.tabs = TRUE]
    /\ UNCHANGED <<file, races, now, last, csv, loader>>

(* tab 1, the calendar, and tab 2, the news, which calls nothing *)
AppTabCalendar ==
    /\ app.pc = "tab1"
    /\ LET schedule_data == get_formatted_schedule(races, now)
           next_race == get_next_race(races, now)
       IN IF app.schedule_handler # None /\ races # <<>>
          THEN IF schedule_data # <<>>
               THEN IF next_race # None
                    THEN /\ last' = [op |-> "calculate_countdown", arg |-> next_race.gp,
                                     result |-> calculate_countdown(next_race.gp, now)]
                         /\ app' = [app EXCEPT
                                      !.pc = "tab3",
                                      !.calls = @ \cup {"get_formatted_schedule",
                                                        "get_next_race",
                                                        "calculate_countdown"}]
                    ELSE /\ last' = [op |-> "get_next_race", arg |-> None,
                                     result |-> next_race]
                         /\ app' = [app EXCEPT
                                      !.pc = "tab3",
                                      !.calls = @ \cup {"get_formatted_schedule",
                                                        "get_next_race"}]
               ELSE /\ last' = [op |-> "get_formatted_schedule", arg |-> None,
                                result |-> schedule_data]
                    /\ app' = [app EXCEPT !.pc = "tab3",
                                          !.calls = @ \cup {"get_formatted_schedule"}]
          ELSE /\ last' = last
               /\ app' = [app EXCEPT !.pc = "tab3"]
    /\ UNCHANGED <<file, races, now, csv, loader>>

(* tab 3: get_driver_championship_data(start_year=2010) *)
AppTabChampionship ==
    /\ app.pc = "tab3"
    /\ last' = [op |-> "get_driver_championship_data", arg |-> AppStartYear,
                result |-> get_driver_championship_data(loader.tables, AppStartYear)]
    /\ app' = [app EXCEPT !.pc = "tab4",
                          !.calls = @ \cup {"get_driver_championship_data"}]
    /\ UNCHANGED <<file, races, now, csv, loader>>

(* tab 4: get_constructor_championship_data(start_year=2010) *)
AppTabConstructors ==
    /\ app.pc = "tab4"
    /\ last' = [op |-> "get_constructor_championship_data", arg |-> AppStartYear,
                result |-> get_constructor_championship_data(loader.tables,
                                                             AppStartYear)]
    /\ app' = [app EXCEPT !.pc = "tab5",
                          !.calls = @ \cup {"get_constructor_championship_data"}]
    /\ UNCHANGED <<file, races, now, csv, loader>>

(* tab 5: get_circuit_stats(); circuit_data.iloc[0] raises when no circuit
   has a winner, which ends the run *)
AppTabCircuits ==
    /\ app.pc = "tab5"
    /\ LET circuit_stats == get_circuit_stats(loader.tables)
       IN /\ last' = [op |-> "get_circuit_stats", arg |-> None,
                      result |-> circuit_stats]
          /\ app' = [app EXCEPT
                       !.pc = IF circuit_stats = <<>> THEN "crashed" ELSE "tab6",
                       !.calls = @ \cup {"get_circuit_stats"}]
    /\ UNCHANGED <<file, races, now, csv, loader>>

(* tab 6: get_top_drivers_list(limit=30), two drivers picked from it, and
   get_head_to_head_data when COMPARE is pressed; .values[0] raises when the
   list is empty *)
AppTabHeadToHead ==
    /\ app.pc = "tab6"
    /\ LET top_drivers == get_top_drivers_list(loader.tables, AppLimit)
       IN IF top_drivers = <<>>
          THEN /\ last' = [op |-> "get_top_drivers_list", arg |-> AppLimit,
                           result |-> top_drivers]
               /\ app' = [app EXCEPT !.pc = "crashed",
                                     !.calls = @ \cup {"get_top_drivers_list"}]
          ELSE \E i, j \in 1..Len(top_drivers) : \E compare_button \in BOOLEAN :
                 LET driver1_id == top_drivers[i].driverId
                     driver2_id == top_drivers[j].driverId
                 IN IF compare_button
                    THEN /\ last' = [op |-> "get_head_to_head_data",
                                     arg |-> <<driver1_id, driver2_id>>,
                                     result |-> get_head_to_head_data(
                                                   loader.tables, driver1_id, driver2_id)]
                         /\ app' = [app EXCEPT
                                      !.pc = "done",
                                      !.calls = @ \cup {"get_top_drivers_list",
                                                        "get_head_to_head_data"}]
                    ELSE /\ last' = [op |-> "get_top_drivers_list", arg |-> AppLimit,
                                     result |-> top_drivers]
                         /\ app' = [app EXCEPT
                                      !.pc = "done",
                                      !.calls = @ \cup {"get_top_drivers_list"}]
    /\ UNCHANGED <<file, races, now, csv, loader>>

NextApp ==
    \/ AppLoadData
    \/ AppLoadSchedule
    \/ AppCheck
    \/ AppTabCalendar
    \/ AppTabChampionship
    \/ AppTabConstructors
    \/ AppTabCircuits
    \/ AppTabHeadToHead

SpecApp == InitApp /\ [][NextApp]_vars

----------------------------------------------------------------------------
(* The two stores loaded, queried and loaded again from unchanged files. *)

InitLoad ==
    /\ file \in AppScheduleFiles
    /\ races = <<>>
    /\ now = 0
    /\ last = NoCall
    /\ IsAppDataset(csv)
    /\ loader = [loaded |-> FALSE, tables |-> NoTables]
    /\ app = NoApp

NextLoad ==
    \/ LoadAllData
    \/ LoadSchedule
    \/ GetTopDriversList(AppLimit)
    \/ GetFormattedSchedule(0)

SpecLoad == InitLoad /\ [][NextLoad]_vars

----------------------------------------------------------------------------
(* Countdown arithmetic on its own: the inputs (target, now) are drawn from
   instants that exercise every field of the decomposition. *)

MaxDays == 1

CdInstants ==
    { d * 86400 + h * 3600 + m * 60 + s :
        d \in 0..MaxDays, h \in {0, 1, 23}, m \in {0, 1, 59}, s \in {0, 1, 59} }

InitCountdown ==
    /\ file = [kind |-> "absent", races |-> <<>>]
    /\ races = <<>>
    /\ now \in CdInstants
    /\ last = NoCall
    /\ csv = None
    /\ loader = NoLoader
    /\ app = NoApp

(* the target strings of the countdown calls *)
CdTargets == { GpZ(t) : t \in CdInstants }

NextCountdown ==
    \E target_date_str \in CdTargets : CalculateCountdown(target_date_str, 0)

SpecCountdown == InitCountdown /\ [][NextCountdown]_vars

----------------------------------------------------------------------------
(* Vocabulary of the schedule claims *)

(* a stored entry from which a calendar entry can be made *)
WellFormed(e) == e.gp.kind = "Z" /\ e.name # Missing

(* positions of the stored entries that are not past at instant n *)
NotPast(rs, n) == { i \in 1..Len(rs) : WellFormed(rs[i]) /\ rs[i].gp.t >= n }

EarliestNotPast(rs, n) ==
    CHOOSE t \in { rs[i].gp.t : i \in NotPast(rs, n) } :
        \A i \in NotPast(rs, n) : t <= rs[i].gp.t

Flagged(r) == { i \in 1..Len(r) : r[i].is_next }

IsFormatted == last.op = "get_formatted_schedule"
IsNextRace == last.op = "get_next_race"
IsCountdown == last.op = "calculate_countdown"

(* C1: the formatted schedule has exactly one entry flagged is_next when some
   calendar entry is not past at the evaluation instant, and is empty (no
   flagged entry) when every calendar entry is past. *)
C1_ExactlyOneNext ==
    IsFormatted =>
        IF NotPast(races, now) # {}
        THEN Cardinality(Flagged(last.result)) = 1
        ELSE last.result = <<>>

C1_Witness ==
    /\ IsFormatted
    /\ Len(last.result) >= 2
    /\ Cardinality(Flagged(last.result)) = 1
    /\ \E i \in 1..Len(races) : WellFormed(races[i]) /\ races[i].gp.t < now

(* C2: the formatted schedule holds no entry whose grand-prix timestamp is
   strictly before the evaluation instant, and every returned entry has
   is_past = FALSE. *)
C2_NoPastEntry ==
    IsFormatted =>
        \A i \in 1..Len(last.result) :
            /\ last.result[i].date >= now
            /\ last.result[i].is_past = FALSE

C2_Witness ==
    /\ IsFormatted
    /\ last.result # <<>>
    /\ \E i \in 1..Len(races) : WellFormed(races[i]) /\ races[i].gp.t < now
    /\ \E i \in 1..Len(last.result) : last.result[i].date = now

(* C3: get_next_race returns the entry with the earliest grand-prix timestamp
   among the entries that are not past, whatever the stored order, and returns
   none exactly when every entry is past (stated for calendars whose entries
   are all well formed). *)
C3_NextRaceIsEarliest ==
    (IsNextRace /\ \A i \in 1..Len(races) : WellFormed(races[i])) =>
        IF NotPast(races, now) = {}
        THEN last.result = None
        ELSE /\ last.result # None
             /\ WellFormed(last.result)
             /\ last.result.gp.t = EarliestNotPast(races, now)

(* C4: the formatted schedule is sorted ascending by grand-prix timestamp
   whatever the stored order, the flagged entry is the first one, which has
   the minimum timestamp of the returned entries; entries at T-1, T+1, T+5
   evaluated at T give two entries, the first flagged with timestamp T+1. *)
ScenarioAt(T) ==
    /\ Len(races) = 3
    /\ \A i \in 1..3 : WellFormed(races[i])
    /\ \E i, j, k \in 1..3 :
          /\ {i, j, k} = 1..3
          /\ races[i].gp.t = T - 1
          /\ races[j].gp.t = T + 1
          /\ races[k].gp.t = T + 5

C4_SortedFirstFlagged ==
    IsFormatted =>
        LET r == last.result
        IN /\ \A i \in 1..Len(r) - 1 : r[i].date <= r[i + 1].date
           /\ Flagged(r) \subseteq {1}
           /\ r # <<>> =>
                 /\ r[1].is_next
                 /\ \A i \in 1..Len(r) : r[1].date <= r[i].date
           /\ \A T \in 1..MaxT - 5 :
                 (ScenarioAt(T) /\ now = T) =>
                    /\ Len(r) = 2
                    /\ r[1].is_next
                    /\ r[1].date = T + 1

C4_Witness ==
    /\ IsFormatted
    /\ now = 1
    /\ ScenarioAt(1)
    /\ races[1].gp.t = 6
    /\ races[2].gp.t = 2
    /\ Len(last.result) = 2
    /\ last.result[1].round = 2

(* C5: status is recomputed on every query of the same loaded handler: when
   now has moved past the timestamp of the entry flagged by the previous
   query, the next query flags the subsequent entry in timestamp order, or
   returns nothing if none remains, and never flags the old entry. *)
StillAhead(r, n) == SelectSeq(r, LAMBDA x : x.date >= n)

C5_NextFlagAdvances ==
    [][ ( /\ IsFormatted
          /\ last'.op = "get_formatted_schedule"
          /\ last.result # <<>>
          /\ now' > last.result[1].date )
        =>
        LET old == last.result
            new == last'.result
            rest == StillAhead(old, now')
        IN /\ \A i \in 1..Len(new) : new[i].round # old[1].round
           /\ IF rest = <<>>
              THEN new = <<>>
              ELSE /\ new # <<>>
                   /\ new[1].is_next
                   /\ new[1].round = rest[1].round ]_vars

C5_Witness ==
    /\ IsFormatted
    /\ last.result # <<>>
    /\ last.result[1].is_next
    /\ \E i \in 1..Len(races) :
          /\ WellFormed(races[i])
          /\ races[i].gp.t < now
          /\ races[i].gp.t < last.result[1].date

(* C6: calculate_countdown returns all-zero fields with expired = TRUE when
   target - now < 0 (so for now = target + 1 second) and expired = FALSE when
   target - now >= 0. *)
C6_ExpiredIffNegative ==
    (IsCountdown /\ last.arg.kind = "Z") =>
        LET d == last.arg.t - now
        IN /\ d < 0 =>
                last.result = [days |-> 0, hours |-> 0, minutes |-> 0,
                               seconds |-> 0, expired |-> TRUE]
           /\ d >= 0 => last.result.expired = FALSE

C6_Witness ==
    /\ IsCountdown
    /\ last.arg.kind = "Z"
    /\ now = last.arg.t + 1
    /\ last.result.expired

(* C7: for a non-negative duration d = target - now in whole seconds the
   countdown has days = d div 86400, hours in 0..23, minutes and seconds in
   0..59, and days*86400 + hours*3600 + minutes*60 + seconds = d; d = 90061
   gives 1 day, 1 hour, 1 minute, 1 second, not expired. *)
C7_Decomposition ==
    (IsCountdown /\ last.arg.kind = "Z" /\ last.arg.t - now >= 0) =>
        LET d == last.arg.t - now
            c == last.result
        IN /\ c.days = d \div 86400
           /\ c.hours \in 0..23
           /\ c.minutes \in 0..59
           /\ c.seconds \in 0..59
           /\ c.days * 86400 + c.hours * 3600 + c.minutes * 60 + c.seconds = d
           /\ d = 90061 =>
                 c = [days |-> 1, hours |-> 1, minutes |-> 1, seconds |-> 1,
                      expired |-> FALSE]

C7_Witness ==
    /\ IsCountdown
    /\ last.arg.kind = "Z"
    /\ last.arg.t - now = 90061
    /\ last.result.days = 1
    /\ last.result.seconds = 1

(* C8: calculate_countdown is a function of (target, now) alone: a call
   changes neither the stored calendar nor its source, and what it returns
   for a given (target, now) does not depend on the calendar held or on the
   calls made before it. *)
C8_CountdownStateless ==
    [][ last'.op = "calculate_countdown" =>
          /\ races' = races
          /\ file' = file
          /\ last'.arg.kind = "Z" =>
                last'.result.expired = (last'.arg.t < now') ]_vars

C8_Witness ==
    /\ IsCountdown
    /\ Len(races) >= 2
    /\ now > 0
    /\ last.arg.kind = "Z"
    /\ last.result.expired = FALSE

----------------------------------------------------------------------------
(* Vocabulary of the dataset claims *)

IsDriverChamp == last.op = "get_driver_championship_data"
IsConstructorChamp == last.op = "get_constructor_championship_data"

Resolves(tbl, key, id) == \E i \in 1..Len(tbl) : tbl[i][key] = id

RowOf(tbl, key, id) == tbl[CHOOSE i \in 1..Len(tbl) : tbl[i][key] = id]

RECURSIVE SumOver(_, _)
SumOver(f, S) ==
    IF S = {} THEN 0
    ELSE LET i == CHOOSE x \in S : TRUE IN f[i] + SumOver(f, S \ {i})

(* C9: in the output of get_driver_championship_data the cumulative_points
   of one (year, driverId) pair never decrease from a row to a row of a
   later round. *)
C9_CumulativeNonDecreasing ==
    IsDriverChamp =>
        LET r == last.result
        IN \A i, j \in 1..Len(r) :
              ( /\ r[i].year = r[j].year
                /\ r[i].driverId = r[j].driverId
                /\ r[i].round < r[j].round )
              => r[i].cumulative_points <= r[j].cumulative_points

C9_Witness ==
    /\ IsDriverChamp
    /\ Len(loader.tables.results) = 2
    /\ loader.tables.results[1].raceId = 1
    /\ loader.tables.results[2].raceId = 2
    /\ Len(last.result) = 2
    /\ last.result[1].driverId = last.result[2].driverId
    /\ last.result[1].round = 1
    /\ last.result[1].cumulative_points = 1
    /\ last.result[2].round = 2
    /\ last.result[2].cumulative_points = 2

(* C10: for every season from start_year on, the points of the rows of
   get_constructor_championship_data for that season add up to the points of
   all results of that season whose constructor resolves: grouping by name
   neither loses nor double-counts points. *)
C10_ConstructorTotalsConserved ==
    IsConstructorChamp =>
        LET T == loader.tables
            r == last.result
            res == T.results
        IN \A y \in {2010, 2011} :
              y >= last.arg =>
                 LET rows == { i \in 1..Len(r) : r[i].year = y }
                     facts == { k \in 1..Len(res) :
                                  /\ Resolves(T.races, "raceId", res[k].raceId)
                                  /\ RowOf(T.races, "raceId", res[k].raceId).year = y
                                  /\ Resolves(T.constructors, "constructorId",
                                              res[k].constructorId) }
                 IN SumOver([i \in 1..Len(r) |-> r[i].points], rows)
                      = SumOver([k \in 1..Len(res) |-> res[k].points], facts)

C10_Witness ==
    /\ IsConstructorChamp
    /\ Len(loader.tables.results) = 2
    /\ loader.tables.results[1].constructorId # loader.tables.results[2].constructorId
    /\ Len(loader.tables.constructors) = 2
    /\ loader.tables.constructors[1].name = loader.tables.constructors[2].name
    /\ Len(last.result) = 1
    /\ last.result[1].points = 2

----------------------------------------------------------------------------
(* Vocabulary of the aggregation claims *)

IsCircuitStats == last.op = "get_circuit_stats"
IsHeadToHead == last.op = "get_head_to_head_data"
IsTopDrivers == last.op = "get_top_drivers_list"

(* the indices of the stored results of driver id, and the sum of their
   points *)
ResultsOf(T, id) == { k \in 1..Len(T.results) : T.results[k].driverId = id }

TotalPoints(T, id) ==
    SumOver([k \in 1..Len(T.results) |-> T.results[k].points], ResultsOf(T, id))

(* C11: head-to-head is symmetric: every driver1 field (name, wins, podiums,
   total points, average position) of get_head_to_head_data(A, B) equals the
   corresponding driver2 field of get_head_to_head_data(B, A), and one call
   raises exactly when the other does. *)
C11_HeadToHeadSymmetric ==
    IsHeadToHead =>
        LET r == last.result
            s == get_head_to_head_data(loader.tables, last.arg[2], last.arg[1])
        IN IF r = Raised THEN s = Raised
           ELSE /\ s # Raised
                /\ r.driver1 = s.driver2
                /\ r.driver1_wins = s.driver2_wins
                /\ r.driver1_podiums = s.driver2_podiums
                /\ r.driver1_total_points = s.driver2_total_points
                /\ r.driver1_avg_position = s.driver2_avg_position
                /\ r.driver2 = s.driver1
                /\ r.driver2_wins = s.driver1_wins
                /\ r.driver2_podiums = s.driver1_podiums
                /\ r.driver2_total_points = s.driver1_total_points
                /\ r.driver2_avg_position = s.driver1_avg_position

C11_Witness ==
    /\ IsHeadToHead
    /\ last.arg = <<1, 2>>
    /\ last.result # Raised
    /\ last.result.driver1_wins = 1
    /\ last.result.driver1_total_points = 150
    /\ last.result.driver2_wins = 0
    /\ last.result.driver2_podiums = 1
    /\ last.result.driver2_avg_position = [num |-> 3, den |-> 1]

(* C12: a head-to-head comparison requested for a driverId that has zero
   results surfaces an error; it returns no comparison record. *)
C12_ZeroResultsRaise ==
    (/\ IsHeadToHead
     /\ \E i \in 1..2 : ResultsOf(loader.tables, last.arg[i]) = {})
        => last.result = Raised

(* C13: get_top_drivers_list(limit) returns at most limit rows, each with the
   sum of all of that driver's result points, in non-increasing order of
   points; no driver of the drivers table left out has strictly more points
   than a returned one; and for driver 1 with 150 points, driver 2 with 90
   points and limit 2 it returns driver 1 then driver 2. *)
C13_TopDrivers ==
    IsTopDrivers =>
        LET T == loader.tables
            r == last.result
            returned == { r[i].driverId : i \in 1..Len(r) }
        IN /\ Len(r) <= last.arg
           /\ \A i \in 1..Len(r) : r[i].points = TotalPoints(T, r[i].driverId)
           /\ \A i, j \in 1..Len(r) : i < j => r[i].points >= r[j].points
           /\ \A d \in 1..Len(T.drivers) :
                 T.drivers[d].driverId \notin returned =>
                    \A i \in 1..Len(r) :
                       TotalPoints(T, T.drivers[d].driverId) <= r[i].points
           /\ (/\ last.arg = 2
               /\ Len(T.drivers) = 2
               /\ TotalPoints(T, 1) = 150
               /\ TotalPoints(T, 2) = 90)
                 => /\ Len(r) = 2
                    /\ r[1].driverId = 1 /\ r[1].points = 150
                    /\ r[2].driverId = 2 /\ r[2].points = 90

C13_Witness ==
    /\ IsTopDrivers
    /\ last.arg = 2
    /\ Len(loader.tables.results) = 2
    /\ loader.tables.results[1].driverId = 2
    /\ loader.tables.results[1].points = 90
    /\ loader.tables.results[2].driverId = 1
    /\ loader.tables.results[2].points = 150
    /\ Len(last.result) = 2
    /\ last.result[1].driverId = 1
    /\ last.result[2].driverId = 2

(* C14: get_circuit_stats counts only rank-1 results: for every race name
   the wins of its rows sum to the number of rank-1 results at races of that
   name whose driver resolves; the rows are in ascending order of race name,
   and within one race name the win counts never increase. *)
C14_CircuitWins ==
    IsCircuitStats =>
        LET T == loader.tables
            r == last.result
            res == T.results
        IN /\ \A n \in 1..Len(CircuitNameOrder) :
                 LET rows == { i \in 1..Len(r) : r[i].name = CircuitNameOrder[n] }
                     won == { k \in 1..Len(res) :
                                /\ res[k].positionOrder = 1
                                /\ Resolves(T.races, "raceId", res[k].raceId)
                                /\ RowOf(T.races, "raceId", res[k].raceId).name
                                     = CircuitNameOrder[n]
                                /\ Resolves(T.drivers, "driverId", res[k].driverId) }
                 IN SumOver([i \in 1..Len(r) |-> r[i].wins], rows) = Cardinality(won)
           /\ \A i, j \in 1..Len(r) :
                 i < j =>
                    /\ RankIn(CircuitNameOrder, r[i].name)
                         <= RankIn(CircuitNameOrder, r[j].name)
                    /\ r[i].name = r[j].name => r[i].wins >= r[j].wins

C14_Witness ==
    /\ IsCircuitStats
    /\ Len(loader.tables.results) = 3
    /\ Len(last.result) = 2
    /\ last.result[1].name = "Monaco"
    /\ last.result[1].driver_name = DriverNameOrder[2]
    /\ last.result[1].wins = 2
    /\ last.result[2].name = "Monaco"
    /\ last.result[2].wins = 1

AggregationOps ==
    {"get_driver_championship_data", "get_constructor_championship_data",
     "get_circuit_stats", "get_head_to_head_data", "get_top_drivers_list"}

(* the result of aggregation op with argument arg over the tables T *)
Aggregate(op, arg, T) ==
    CASE op = "get_driver_championship_data" -> get_driver_championship_data(T, arg)
      [] op = "get_constructor_championship_data" ->
            get_constructor_championship_data(T, arg)
      [] op = "get_circuit_stats" -> get_circuit_stats(T)
      [] op = "get_head_to_head_data" -> get_head_to_head_data(T, arg[1], arg[2])
      [] op = "get_top_drivers_list" -> get_top_drivers_list(T, arg)

(* the tables without the results whose raceId, driverId or constructorId
   has no row in its dimension table *)
WithoutUnresolved(T) ==
    [T EXCEPT !.results =
        SelectSeq(@, LAMBDA r :
            /\ Resolves(T.races, "raceId", r.raceId)
            /\ Resolves(T.drivers, "driverId", r.driverId)
            /\ Resolves(T.constructors, "constructorId", r.constructorId))]

(* C15: a result whose raceId, driverId or constructorId has no matching
   dimension row contributes to none of the five aggregates, so that every
   aggregate is what it is without such results, and it never makes an
   aggregation fail: a head-to-head comparison of two drivers that have
   results returns a record. *)
C15_UnresolvedNeverCounts ==
    last.op \in AggregationOps =>
        /\ last.result = Aggregate(last.op, last.arg, WithoutUnresolved(loader.tables))
        /\ (/\ IsHeadToHead
            /\ \A i \in 1..2 : ResultsOf(loader.tables, last.arg[i]) # {})
              => last.result # Raised

(* C16: no aggregation changes the dataset store: a call of one of the five
   get_* operations leaves the loader's tables and the files as they were,
   and a call that repeats the previous call with the same arguments returns
   the same result. *)
C16_AggregationsReadOnly ==
    [][ last'.op \in AggregationOps =>
          /\ loader' = loader
          /\ csv' = csv
          /\ (last.op = last'.op /\ last.arg = last'.arg)
                => last'.result = last.result ]_vars

C16_Witness ==
    /\ IsCircuitStats
    /\ Len(last.result) = 1
    /\ Len(loader.tables.results) = 2
    /\ loader.tables.results[1].positionOrder = 1
    /\ loader.tables.results[2].positionOrder = 3
    /\ loader.tables = load_all_data(csv, NoTables).tables

(* C17: when one of the five dataset files cannot be read, load_all_data
   reports failure and leaves no partially usable store: no table read
   before the failure remains on the loader. *)
C17_NoPartialStore ==
    (last.op = "load_all_data" /\ ~last.result) =>
        \A t \in {"races", "results", "drivers", "constructors", "qualifying"} :
            loader.tables[t] = None

(* C18: in the dashboard run, when the dataset load fails the error message
   is shown and the run halts before any tab is rendered and before any
   aggregation is invoked; no aggregation is ever called on a store whose
   load did not succeed. *)
C18_FailedLoadHalts ==
    /\ (app.pc \notin {"idle", "start"} /\ ~loader.loaded) =>
          /\ LoadFailedMessage \in app.errors
          /\ app.pc \in {"load_schedule", "check", "stopped"}
          /\ ~app.tabs
          /\ app.calls = {}
    /\ app.calls \cap AggregationOps # {} => loader.loaded

C18_Witness ==
    /\ app.pc = "stopped"
    /\ csv.bad = 2
    /\ LoadFailedMessage \in app.errors
    /\ loader.tables.races = csv.races
    /\ ~loader.loaded

(* C19: the schedule load returns failure when the source is absent, when it
   is malformed and when zero entries were parsed; it returns success only
   when at least one well-formed calendar entry was loaded. *)
C19_LoadStatus ==
    last.op = "load_schedule" =>
        /\ file.kind \in {"absent", "malformed"} => ~last.result
        /\ file.races = <<>> => ~last.result
        /\ last.result => \E k \in 1..Len(races) : WellFormed(races[k])

(* C20: when the schedule source contains an unparseable entry, the load
   skips it and succeeds with the remaining entries, so that the loaded
   calendar holds only parseable entries; the load fails when skipping
   leaves zero entries. *)
C20_UnparseableSkipped ==
    (last.op = "load_schedule" /\ file.kind = "json") =>
        /\ \A k \in 1..Len(races) : WellFormed(races[k])
        /\ \A k \in 1..Len(file.races) :
              WellFormed(file.races[k]) => \E j \in 1..Len(races) : races[j] = file.races[k]
        /\ last.result = (races # <<>>)

----------------------------------------------------------------------------
(* C21: store loading is idempotent: load_all_data, or load_schedule, run
   again on a store that is already loaded, or right after the same load,
   with unchanged files leaves the store with the contents it had and
   returns the status it returned before. *)
C21_LoadIdempotent ==
    [][ /\ (last'.op = "load_all_data" /\ (loader.loaded \/ last.op = "load_all_data"))
           => /\ loader' = loader
              /\ last'.result = loader.loaded
        /\ (last'.op = "load_schedule" /\ (Usable \/ last.op = "load_schedule"))
           => /\ races' = races
              /\ last'.result = Usable ]_vars

C21_Witness ==
    /\ last.op = "load_schedule"
    /\ last.result
    /\ races = file.races
    /\ loader.loaded
    /\ Len(loader.tables.results) = 1
    /\ loader.tables = load_all_data(csv, loader.tables).tables

(* the stored results that get_driver_championship_data(start) reports: race
   and driver resolve and the year of the race is not before start *)
ChampFacts(T, start) ==
    { k \in 1..Len(T.results) :
        /\ Resolves(T.races, "raceId", T.results[k].raceId)
        /\ Resolves(T.drivers, "driverId", T.results[k].driverId)
        /\ RowOf(T.races, "raceId", T.results[k].raceId).year >= start }

RaceOf(T, k) == RowOf(T.races, "raceId", T.results[k].raceId)

(* the reported results of driver d in year y, and those up to round r *)
SeasonFacts(T, start, y, d) ==
    { k \in ChampFacts(T, start) :
        T.results[k].driverId = d /\ RaceOf(T, k).year = y }

UpToRound(T, start, y, d, r) ==
    { k \in SeasonFacts(T, start, y, d) : RaceOf(T, k).round <= r }

PointsOver(T, S) == SumOver([k \in 1..Len(T.results) |-> T.results[k].points], S)

(* driver d has at most one reported result per round of year y *)
OnePerRound(T, start, y, d) ==
    \A k1, k2 \in SeasonFacts(T, start, y, d) :
        RaceOf(T, k1).round = RaceOf(T, k2).round => k1 = k2

(* the rows of the series and the reported results match one to one *)
OneRowPerFact(T, start, r) ==
    /\ Len(r) = Cardinality(ChampFacts(T, start))
    /\ \A k \in ChampFacts(T, start) :
          Cardinality({ i \in 1..Len(r) :
                          /\ r[i].year = RaceOf(T, k).year
                          /\ r[i].round = RaceOf(T, k).round
                          /\ r[i].driverId = T.results[k].driverId
                          /\ r[i].points = T.results[k].points })
            = Cardinality({ j \in ChampFacts(T, start) :
                              /\ RaceOf(T, j) = RaceOf(T, k)
                              /\ T.results[j].driverId = T.results[k].driverId
                              /\ T.results[j].points = T.results[k].points })

(* the last row of every (year, driverId) group carries the season total *)
LastRowIsTotal(T, start, r) ==
    \A i \in 1..Len(r) :
        (\A j \in (i + 1)..Len(r) :
            ~(r[j].year = r[i].year /\ r[j].driverId = r[i].driverId))
          => r[i].cumulative_points
               = PointsOver(T, SeasonFacts(T, start, r[i].year, r[i].driverId))

(* C22 as stated: the championship series has exactly one row per result
   whose race and driver resolve and whose year >= start_year, the
   cumulative_points of the row for (year, driverId, round r) is the sum of
   that driver's points over that year's results with round <= r, and the
   last row of each (year, driverId) group is the season total. *)
C22_ChampionshipSeries ==
    IsDriverChamp =>
        LET T == loader.tables
            r == last.result
        IN /\ OneRowPerFact(T, last.arg, r)
           /\ \A i \in 1..Len(r) :
                 r[i].cumulative_points
                   = PointsOver(T, UpToRound(T, last.arg, r[i].year,
                                             r[i].driverId, r[i].round))
           /\ LastRowIsTotal(T, last.arg, r)

(* C22, amended: the same, with the cumulative_points of a row equal to the
   sum over the rounds <= r for the drivers who have at most one result per
   round of that year. *)
C22_ChampionshipSeriesOnePerRound ==
    IsDriverChamp =>
        LET T == loader.tables
            r == last.result
        IN /\ OneRowPerFact(T, last.arg, r)
           /\ \A i \in 1..Len(r) :
                 OnePerRound(T, last.arg, r[i].year, r[i].driverId) =>
                    r[i].cumulative_points
                      = PointsOver(T, UpToRound(T, last.arg, r[i].year,
                                                r[i].driverId, r[i].round))
           /\ LastRowIsTotal(T, last.arg, r)

C22_Witness ==
    /\ IsDriverChamp
    /\ last.arg = 2010
    /\ Len(loader.tables.results) = 2
    /\ loader.tables.results[1].raceId = 2
    /\ loader.tables.results[2].raceId = 1
    /\ Len(loader.tables.drivers) = 1
    /\ Len(last.result) = 2
    /\ last.result[1].driverId = last.result[2].driverId
    /\ last.result[1].round = 1 /\ last.result[1].cumulative_points = 1
    /\ last.result[2].round = 2 /\ last.result[2].cumulative_points = 2

----------------------------------------------------------------------------
(* C23: an entry whose grand-prix timestamp equals the evaluation instant is
   not past: get_formatted_schedule includes it, and when it is the earliest
   entry that is not past it is flagged next and get_next_race returns it
   (stated for calendars whose entries are all well formed). *)
AtNow == { i \in 1..Len(races) : WellFormed(races[i]) /\ races[i].gp.t = now }

C23_EntryAtNowNotPast ==
    (AtNow # {} /\ \A i \in 1..Len(races) : WellFormed(races[i])) =>
        /\ IsFormatted =>
              /\ \A i \in AtNow :
                    \E j \in 1..Len(last.result) : last.result[j].round = races[i].round
              /\ last.result[1].date = now
              /\ last.result[1].is_next
        /\ IsNextRace =>
              /\ last.result # None
              /\ last.result.gp.t = now

----------------------------------------------------------------------------
(* Vocabulary of the claims about finish codes: the rows of results.csv as
   they are in the file *)

NumericCodes == {"1", "2", "3", "4"}

FileRows == 1..Len(csv.results)

(* the points cell of row k of the file, 0 when it is missing *)
FilePoints == [k \in FileRows |->
                 IF csv.results[k].points = NaN THEN 0 ELSE csv.results[k].points]

RaceInFile(k) == Resolves(csv.races, "raceId", csv.results[k].raceId)
DriverInFile(k) == Resolves(csv.drivers, "driverId", csv.results[k].driverId)
ConstructorInFile(k) ==
    Resolves(csv.constructors, "constructorId", csv.results[k].constructorId)

YearInFile(k) == RowOf(csv.races, "raceId", csv.results[k].raceId).year

(* the rows of driver id in the file whose race resolves *)
RacedBy(id) == { k \in FileRows : csv.results[k].driverId = id /\ RaceInFile(k) }

(* C24: results with a non-numeric finish code are kept after load with an
   unranked position; they contribute their points to the championship
   series, the constructor totals, the top-drivers totals and the
   head-to-head total points, and are never counted as a win or a podium; a
   result with missing points contributes 0. *)
C24_FinishCodes ==
    loader.loaded =>
        LET T == loader.tables
            r == last.result
            side(id, wins, podiums, total) ==
                /\ wins = Cardinality({ k \in RacedBy(id) :
                                          csv.results[k].positionOrder = "1" })
                /\ podiums = Cardinality({ k \in RacedBy(id) :
                                csv.results[k].positionOrder \in {"1", "2", "3"} })
                /\ total = SumOver(FilePoints, RacedBy(id))
        IN /\ Len(T.results) = Len(csv.results)
           /\ \A k \in FileRows :
                 /\ T.results[k].points = FilePoints[k]
                 /\ csv.results[k].positionOrder \notin NumericCodes
                      => T.results[k].positionOrder = NaN
           /\ IsTopDrivers =>
                 \A i \in 1..Len(r) :
                    r[i].points
                      = SumOver(FilePoints,
                                { k \in FileRows : csv.results[k].driverId = r[i].driverId })
           /\ (IsHeadToHead /\ r # Raised) =>
                 /\ side(last.arg[1], r.driver1_wins, r.driver1_podiums,
                         r.driver1_total_points)
                 /\ side(last.arg[2], r.driver2_wins, r.driver2_podiums,
                         r.driver2_total_points)
           /\ IsDriverChamp =>
                 SumOver([i \in 1..Len(r) |-> r[i].points], 1..Len(r))
                   = SumOver(FilePoints,
                             { k \in FileRows : /\ RaceInFile(k) /\ DriverInFile(k)
                                                /\ YearInFile(k) >= last.arg })
           /\ IsConstructorChamp =>
                 SumOver([i \in 1..Len(r) |-> r[i].points], 1..Len(r))
                   = SumOver(FilePoints,
                             { k \in FileRows : /\ RaceInFile(k) /\ ConstructorInFile(k)
                                                /\ YearInFile(k) >= last.arg })

C24_Witness ==
    /\ IsHeadToHead
    /\ last.arg = <<1, 2>>
    /\ Len(csv.results) = 2
    /\ csv.results[1].driverId = 1 /\ csv.results[1].positionOrder = "R"
    /\ csv.results[1].points = 90
    /\ csv.results[2].driverId = 1 /\ csv.results[2].positionOrder = "4"
    /\ csv.results[2].points = NaN
    /\ last.result # Raised
    /\ last.result.driver1_total_points = 90
    /\ last.result.driver1_wins = 0
    /\ last.result.driver1_podiums = 0

(* the loaded results of driver id that are classified and whose race
   resolves *)
ClassifiedOf(T, id) ==
    { k \in ResultsOf(T, id) :
        /\ Resolves(T.races, "raceId", T.results[k].raceId)
        /\ T.results[k].positionOrder # NaN }

(* the tables without the results that have no rank *)
WithoutUnranked(T) ==
    [T EXCEPT !.results = SelectSeq(@, LAMBDA r : r.positionOrder # NaN)]

(* C25: in the head-to-head comparison a driver's average position is the
   sum of positionOrder over the driver's classified finishes divided by
   their number; the unranked results change neither the numerator nor the
   denominator. *)
C25_AveragePosition ==
    (IsHeadToHead /\ last.result # Raised) =>
        LET T == loader.tables
            r == last.result
            u == get_head_to_head_data(WithoutUnranked(T), last.arg[1], last.arg[2])
            avg(id) ==
                [num |-> SumOver([k \in 1..Len(T.results) |-> T.results[k].positionOrder],
                                 ClassifiedOf(T, id)),
                 den |-> Cardinality(ClassifiedOf(T, id))]
        IN /\ r.driver1_avg_position = avg(last.arg[1])
           /\ r.driver2_avg_position = avg(last.arg[2])
           /\ u.driver1_avg_position = r.driver1_avg_position
           /\ u.driver2_avg_position = r.driver2_avg_position

C25_Witness ==
    /\ IsHeadToHead
    /\ last.arg = <<2, 1>>
    /\ Len(loader.tables.races) = 3
    /\ Len(loader.tables.results) = 2
    /\ \A k \in 1..2 : loader.tables.results[k].driverId = 1
    /\ loader.tables.results[1].positionOrder = NaN
    /\ loader.tables.results[2].positionOrder = 3
    /\ last.result # Raised
    /\ last.result.driver2_avg_position = [num |-> 3, den |-> 1]
    /\ last.result.driver1_avg_position = [num |-> 0, den |-> 0]

----------------------------------------------------------------------------
(* the calendar without the entries that cannot be processed *)
Processable(rs) == SelectSeq(rs, WellFormed)

(* C26: an entry that cannot be processed at query time (missing or
   unparseable grand-prix timestamp, missing round, name or location) never
   makes get_formatted_schedule or get_next_race fail: the entry is skipped
   and every other entry is classified as if the bad entry were absent. *)
C26_BadEntrySkipped ==
    /\ IsFormatted => last.result = get_formatted_schedule(Processable(races), now)
    /\ IsNextRace => last.result = get_next_race(Processable(races), now)

(* C27: at every evaluation instant and for every loaded calendar,
   get_next_race returns an entry exactly when the formatted schedule is not
   empty, and the returned entry has the round of the formatted entry that
   is flagged is_next. *)
C27_NextRaceAgreesWithSchedule ==
    (Usable /\ (IsNextRace \/ IsFormatted)) =>
        LET next_race == get_next_race(races, now)
            schedule_data == get_formatted_schedule(races, now)
        IN /\ (next_race # None) <=> (schedule_data # <<>>)
           /\ next_race # None =>
                 \A j \in Flagged(schedule_data) :
                     schedule_data[j].round = next_race.round

(* the rounds a formatted schedule returns *)
RoundsOf(r) == { r[j].round : j \in 1..Len(r) }

(* C28: as now advances over a fixed loaded calendar each entry's status
   only moves forward (upcoming, then next, then past): an entry that a
   query omitted is never returned by the following query, an entry that was
   flagged next is never returned unflagged, and the timestamp of the
   flagged entry, like the timestamp of the entry get_next_race returns,
   never decreases from one query to the following one. *)
C28_StatusMovesForward ==
    [][ /\ ( IsFormatted /\ last'.op = "get_formatted_schedule" ) =>
             LET old == last.result
                 new == last'.result
             IN /\ RoundsOf(new) \subseteq RoundsOf(old)
                /\ \A i \in Flagged(old) : \A j \in 1..Len(new) :
                       new[j].round = old[i].round => new[j].is_next
                /\ \A i \in Flagged(old) : \A j \in Flagged(new) :
                       new[j].date >= old[i].date
        /\ ( IsNextRace /\ last'.op = "get_next_race" ) =>
             /\ last.result = None => last'.result = None
             /\ last'.result # None => last'.result.gp.t >= last.result.gp.t
      ]_vars

C28_Witness ==
    /\ IsFormatted
    /\ now > 0
    /\ Len(last.result) = 2
    /\ last.result[1].is_next
    /\ ~last.result[2].is_next
    /\ last.result[1].date = now
    /\ \E i \in 1..Len(races) : WellFormed(races[i]) /\ races[i].gp.t < now

----------------------------------------------------------------------------
(* C29: for every driver listed by get_top_drivers_list, the points shown
   there equal the total points get_head_to_head_data reports for that same
   driver, on every loaded dataset. *)
C29_TopDriversAgreeWithHeadToHead ==
    IsTopDrivers =>
        \A i \in 1..Len(last.result) : \A other \in 1..2 :
            LET id == last.result[i].driverId
                h == get_head_to_head_data(loader.tables, id, other)
            IN h # Raised => h.driver1_total_points = last.result[i].points

(* the driverIds of the stored results that have a row in the drivers table *)
ResolvableDrivers(T) ==
    { T.results[k].driverId : k \in 1..Len(T.results) }
        \cap { T.drivers[j].driverId : j \in 1..Len(T.drivers) }

(* C30: get_top_drivers_list(limit) returns exactly min(limit, number of
   distinct driverIds of the results that have a Driver row) rows: a driver
   without a Driver row never takes one of the limit places at the expense
   of a resolvable driver. *)
C30_TopDriversCount ==
    IsTopDrivers =>
        LET n == Cardinality(ResolvableDrivers(loader.tables))
        IN Len(last.result) = IF last.arg < n THEN last.arg ELSE n

====
